---- MODULE Spec2Model ----
(***************************************************************************)
(* The Buckets page (pages/Buckets) and the AppProvider session context    *)
(* (context/AppContext) of the DataHaven demo dapp, as state machines.     *)
(*                                                                         *)
(* Every async handler is a process whose position (pc) is the await it is *)
(* suspended at.  One action is the synchronous code between two awaits:   *)
(* JavaScript runs it to completion, so nothing interleaves inside it.     *)
(* The services (createBucket, verifyBucketCreation, ...) live outside the *)
(* modelled files: each call either returns a value drawn from a small set *)
(* or throws a value drawn from ErrValues, at any later moment.            *)
(***************************************************************************)
EXTENDS Integers, Sequences, FiniteSets

(* ------------------------------ bounds -------------------------------- *)

\* handleCreateBucket invocations over one life of the page
MaxCreateRuns == 2
\* handleCreateBucket invocations that bypass the form's disabled controls
MaxHandlerCalls == 1
\* handleDeleteBucket invocations
MaxDeleteRuns == 1
\* loadBuckets invocations from the mount effect and the Refresh button
MaxLoads == 1
\* handleViewBucket invocations
MaxViews == 2
\* connectWallet invocations
MaxConnects == 1

(* ------------------------------ values -------------------------------- *)

NULL == "null"

\* what the name input can hold, as sequences of characters: nothing, only
\* whitespace, a name, and the same name wrapped in whitespace
Names == {<<>>, <<" ">>, <<"a">>, <<" ", "a", " ">>}

\* bucket ids the chain hands out, and the listings the MSP can answer with
BucketIds == {"B1", "B2"}
Listings == SUBSET BucketIds

\* what a service can throw: an Error with a message, or a value that is no Error
ErrValues == {[isError |-> TRUE, message |-> "rejected"],
              [isError |-> FALSE, message |-> ""]}
NoErr == [isError |-> FALSE, message |-> NULL]

DeleteRuns == 1..MaxDeleteRuns
Loads == 1..MaxLoads
Views == 1..MaxViews

VARIABLES
  \* Buckets page: useState cells
  buckets, selectedBucket, selectedBucketId, isLoadingBuckets,
  isLoadingBucketInfo, isDeleting, error, bucketName, createProgress,
  \* Buckets page: the async handlers in flight
  creates, deletes, loads, views,
  \* AppProvider: useState cells and the module-level flag
  state, isLoading, appError, wasmInitialized,
  \* AppProvider: the async operations in flight, and the initWasm calls made
  connects, restore, mspConn, auth, wasmCalls

pageVars == <<buckets, selectedBucket, selectedBucketId, isLoadingBuckets,
              isLoadingBucketInfo, isDeleting, error, bucketName, createProgress,
              creates, deletes, loads, views>>
appVars == <<state, isLoading, appError, wasmInitialized,
             connects, restore, mspConn, auth, wasmCalls>>
vars == <<pageVars, appVars>>

\* the handler slots in use (fixed by the initial state)
Creates == DOMAIN creates

(* ------------------------------ helpers ------------------------------- *)

\* String.prototype.trim on a name: whitespace dropped at both ends
RECURSIVE TrimStart(_)
TrimStart(s) == IF s # <<>> /\ Head(s) = " " THEN TrimStart(Tail(s)) ELSE s
RECURSIVE TrimEnd(_)
TrimEnd(s) ==
  IF s # <<>> /\ s[Len(s)] = " " THEN TrimEnd(SubSeq(s, 1, Len(s) - 1)) ELSE s
Trim(s) == TrimEnd(TrimStart(s))

\* err instanceof Error ? err.message : fallback
ErrMessage(err, fallback) == IF err.isError THEN err.message ELSE fallback

\* the Button component: a loading button cannot be clicked
ButtonDisabled(disabled, loading) == disabled \/ loading

\* the first unused slot of a family of processes
IsNext(f, r) == f[r].pc = "none" /\ \A q \in DOMAIN f : q < r => f[q].pc # "none"

\* one collaborator call of a handler, and its outcome so far
Call(fn, arg) == [fn |-> fn, arg |-> arg, result |-> "pending"]
Settle(calls, result) ==
  [calls EXCEPT ![Len(calls)] = [@ EXCEPT !.result = result]]

\* a handler that has resolved: its closure (name, bucketId, the captured
\* isMspConnected and the arguments it passed) is gone, what it did remains
Forget(calls) == [i \in DOMAIN calls |-> [calls[i] EXCEPT !.arg = NULL]]

Progress(step, message) == [step |-> step, message |-> message]

(* --------------------------- initial state ---------------------------- *)

\* AppState as AppProvider first renders it (useState initial value)
SignedOut == [isWalletConnected |-> FALSE, isMspConnected |-> FALSE,
              isAuthenticated |-> FALSE, address |-> NULL, mspInfo |-> NULL,
              userProfile |-> NULL]

\* the AppState values the page can mount under: a connected wallet, and
\* the MSP and authentication flags each as connectMsp and authenticateUser
\* set them, one without the other included (SpecApp reaches all four; the
\* page reads isAuthenticated and isMspConnected only)
PageContexts == {[isWalletConnected |-> TRUE, isMspConnected |-> m,
                  isAuthenticated |-> a, address |-> "0xA",
                  mspInfo |-> IF m THEN "msp" ELSE NULL,
                  userProfile |-> IF a THEN "profile" ELSE NULL] :
                 m \in BOOLEAN, a \in BOOLEAN}

NoCreate == [pc |-> "none", name |-> <<>>, bucketId |-> NULL, msp |-> FALSE,
             thrown |-> NoErr, emitted |-> <<>>, calls |-> <<>>]
NoDelete == [pc |-> "none", bucketId |-> NULL, sel |-> NULL, msp |-> FALSE,
             calls |-> <<>>]
NoLoad == [pc |-> "none"]
NoView == [pc |-> "none", bucketId |-> NULL]

\* the useState initial values of Buckets, with room for n creations
PageInit(n) ==
  /\ buckets = {}
  /\ selectedBucket = NULL
  /\ selectedBucketId = NULL
  /\ isLoadingBucketInfo = FALSE
  /\ isDeleting = NULL
  /\ bucketName = <<>>
  /\ createProgress = Progress("idle", "")
  /\ creates = [r \in 1..n |-> NoCreate]
  /\ deletes = [d \in DeleteRuns |-> NoDelete]
  /\ views = [v \in Views |-> NoView]

\* AppProvider with no user-driven operation started
AppIdle ==
  /\ appError = NULL
  /\ connects = [c \in 1..MaxConnects |-> "none"]
  /\ mspConn = "none"
  /\ auth = "none"

(* ---------------------- Buckets page: loadBuckets --------------------- *)

\* loadBuckets up to its await, called through the closure of a render in
\* which isMspConnected was msp.  TRUE when the call suspends at
\* getBucketsFromMSP, FALSE when it returned at the guard.
LoadBucketsCall(msp) ==
  /\ isLoadingBuckets' = IF msp THEN TRUE ELSE isLoadingBuckets
  /\ error' = IF msp THEN NULL ELSE error

\* loadBuckets after its await returned data
LoadBucketsReturn(data) ==
  /\ buckets' = data
  /\ isLoadingBuckets' = FALSE

\* loadBuckets after its await threw err
LoadBucketsThrow(err) ==
  /\ error' = ErrMessage(err, "Failed to load buckets")
  /\ isLoadingBuckets' = FALSE

\* the mount effect: loadBuckets runs when the page mounts connected
MountEffect(msp) ==
  /\ isLoadingBuckets = msp
  /\ error = NULL
  /\ loads = [l \in 0..MaxLoads |->
                IF l = 0 /\ msp THEN [pc |-> "getBucketsFromMSP"] ELSE NoLoad]

\* the Refresh button
Refresh(l) ==
  /\ state.isAuthenticated
  /\ ~ButtonDisabled(FALSE, isLoadingBuckets)
  /\ l \in Loads /\ IsNext([k \in Loads |-> loads[k]], l)
  /\ LoadBucketsCall(state.isMspConnected)
  /\ loads' = [loads EXCEPT ![l].pc =
                 IF state.isMspConnected THEN "getBucketsFromMSP" ELSE "returned"]
  /\ UNCHANGED <<buckets, selectedBucket, selectedBucketId, isLoadingBucketInfo,
                 isDeleting, bucketName, createProgress, creates, deletes, views>>
  /\ UNCHANGED appVars

LoadReturns(l, data) ==
  /\ loads[l].pc = "getBucketsFromMSP"
  /\ LoadBucketsReturn(data)
  /\ loads' = [loads EXCEPT ![l].pc = "returned"]
  /\ UNCHANGED <<selectedBucket, selectedBucketId, isLoadingBucketInfo, isDeleting,
                 error, bucketName, createProgress, creates, deletes, views>>
  /\ UNCHANGED appVars

LoadThrows(l, err) ==
  /\ loads[l].pc = "getBucketsFromMSP"
  /\ LoadBucketsThrow(err)
  /\ loads' = [loads EXCEPT ![l].pc = "returned"]
  /\ UNCHANGED <<buckets, selectedBucket, selectedBucketId, isLoadingBucketInfo,
                 isDeleting, bucketName, createProgress, creates, deletes, views>>
  /\ UNCHANGED appVars

(* ------------------- Buckets page: handleCreateBucket ----------------- *)

\* the form's controls are disabled while a creation shows as in flight
FormBusy == createProgress.step \notin {"idle", "done", "error"}
SubmitDisabled == Trim(bucketName) = <<>> \/ FormBusy

\* typing into the name input
SetBucketName(v) ==
  /\ state.isAuthenticated
  /\ ~FormBusy
  /\ v # bucketName
  /\ bucketName' = v
  /\ UNCHANGED <<buckets, selectedBucket, selectedBucketId, isLoadingBuckets,
                 isLoadingBucketInfo, isDeleting, error, createProgress,
                 creates, deletes, loads, views>>
  /\ UNCHANGED appVars

\* handleCreateBucket testing the name without trim()
HandleCreateBucketNoTrim(r) ==
  /\ IsNext(creates, r)
  /\ IF bucketName = <<>>
       THEN /\ creates' = [creates EXCEPT ![r].pc = "rejected"]
            /\ UNCHANGED <<error, createProgress>>
       ELSE /\ error' = NULL
            /\ createProgress' = Progress("creating", "Creating bucket on-chain...")
            /\ creates' = [creates EXCEPT ![r] =
                 [@ EXCEPT !.pc = "createBucket",
                           !.name = bucketName,
                           !.msp = state.isMspConnected,
                           !.emitted = <<"creating">>,
                           !.calls = <<Call("createBucket", bucketName)>>]]
  /\ UNCHANGED <<buckets, selectedBucket, selectedBucketId, isLoadingBuckets,
                 isLoadingBucketInfo, isDeleting, bucketName, deletes, loads, views>>
  /\ UNCHANGED appVars

\* handleCreateBucket up to its first await
HandleCreateBucket(r) ==
  /\ IsNext(creates, r)
  /\ IF Trim(bucketName) = <<>>
       THEN /\ creates' = [creates EXCEPT ![r].pc = "rejected"]
            /\ UNCHANGED <<error, createProgress>>
       ELSE /\ error' = NULL
            /\ createProgress' = Progress("creating", "Creating bucket on-chain...")
            /\ creates' = [creates EXCEPT ![r] =
                 [@ EXCEPT !.pc = "createBucket",
                           !.name = bucketName,
                           !.msp = state.isMspConnected,
                           !.emitted = <<"creating">>,
                           !.calls = <<Call("createBucket", bucketName)>>]]
  /\ UNCHANGED <<buckets, selectedBucket, selectedBucketId, isLoadingBuckets,
                 isLoadingBucketInfo, isDeleting, bucketName, deletes, loads, views>>
  /\ UNCHANGED appVars

\* the Create Bucket button (or Enter in the name input) submits the form
SubmitForm(r) ==
  /\ state.isAuthenticated
  /\ ~ButtonDisabled(SubmitDisabled, FormBusy)
  /\ HandleCreateBucket(r)

\* createBucket returned, and verifyBucketCreation is called without await:
\* the backend wait starts while the verification is still pending
CreateBucketReturnsNoAwait(r, id) ==
  /\ creates[r].pc = "createBucket"
  /\ createProgress' = Progress("waiting", "Waiting for backend to index...")
  /\ creates' = [creates EXCEPT ![r] =
       [@ EXCEPT !.pc = "waitForBackendBucketReady",
                 !.bucketId = id,
                 !.emitted = @ \o <<"verifying", "waiting">>,
                 !.calls = Settle(@, "returned")
                           \o <<Call("verifyBucketCreation", id),
                                Call("waitForBackendBucketReady", id)>>]]
  /\ UNCHANGED <<buckets, selectedBucket, selectedBucketId, isLoadingBuckets,
                 isLoadingBucketInfo, isDeleting, error, bucketName,
                 deletes, loads, views>>
  /\ UNCHANGED appVars

\* createBucket returned { bucketId: id }
CreateBucketReturns(r, id) ==
  /\ creates[r].pc = "createBucket"
  /\ createProgress' = Progress("verifying", "Verifying bucket on-chain...")
  /\ creates' = [creates EXCEPT ![r] =
       [@ EXCEPT !.pc = "verifyBucketCreation",
                 !.bucketId = id,
                 !.emitted = Append(@, "verifying"),
                 !.calls = Append(Settle(@, "returned"),
                                  Call("verifyBucketCreation", id))]]
  /\ UNCHANGED <<buckets, selectedBucket, selectedBucketId, isLoadingBuckets,
                 isLoadingBucketInfo, isDeleting, error, bucketName,
                 deletes, loads, views>>
  /\ UNCHANGED appVars

\* verifyBucketCreation returned, the 'waiting' progress never set
VerifyReturnsSilent(r) ==
  /\ creates[r].pc = "verifyBucketCreation"
  /\ creates' = [creates EXCEPT ![r] =
       [@ EXCEPT !.pc = "waitForBackendBucketReady",
                 !.calls = Append(Settle(@, "returned"),
                                  Call("waitForBackendBucketReady", creates[r].bucketId))]]
  /\ UNCHANGED <<buckets, selectedBucket, selectedBucketId, isLoadingBuckets,
                 isLoadingBucketInfo, isDeleting, error, bucketName, createProgress,
                 deletes, loads, views>>
  /\ UNCHANGED appVars

\* verifyBucketCreation returned, and success is reported before the backend
\* wait has returned
VerifyReturnsDoneEarly(r) ==
  /\ creates[r].pc = "verifyBucketCreation"
  /\ createProgress' = Progress("done", "Bucket created successfully!")
  /\ creates' = [creates EXCEPT ![r] =
       [@ EXCEPT !.pc = "waitForBackendBucketReady",
                 !.emitted = @ \o <<"waiting", "done">>,
                 !.calls = Append(Settle(@, "returned"),
                                  Call("waitForBackendBucketReady", creates[r].bucketId))]]
  /\ UNCHANGED <<buckets, selectedBucket, selectedBucketId, isLoadingBuckets,
                 isLoadingBucketInfo, isDeleting, error, bucketName,
                 deletes, loads, views>>
  /\ UNCHANGED appVars

\* verifyBucketCreation returned
VerifyReturns(r) ==
  /\ creates[r].pc = "verifyBucketCreation"
  /\ createProgress' = Progress("waiting", "Waiting for backend to index...")
  /\ creates' = [creates EXCEPT ![r] =
       [@ EXCEPT !.pc = "waitForBackendBucketReady",
                 !.emitted = Append(@, "waiting"),
                 !.calls = Append(Settle(@, "returned"),
                                  Call("waitForBackendBucketReady", creates[r].bucketId))]]
  /\ UNCHANGED <<buckets, selectedBucket, selectedBucketId, isLoadingBuckets,
                 isLoadingBucketInfo, isDeleting, error, bucketName,
                 deletes, loads, views>>
  /\ UNCHANGED appVars

\* waitForBackendBucketReady returned: done, the name cleared, then loadBuckets;
\* when loadBuckets returns at its guard the handler goes on to setTimeout
WaitReturns(r) ==
  /\ creates[r].pc = "waitForBackendBucketReady"
  /\ createProgress' = Progress("done", "Bucket created successfully!")
  /\ bucketName' = <<>>
  /\ LoadBucketsCall(creates[r].msp)
  /\ creates' = [creates EXCEPT ![r] =
       [@ EXCEPT !.pc = IF creates[r].msp THEN "loadBuckets" ELSE "timer",
                 !.emitted = Append(@, "done"),
                 !.calls = IF creates[r].msp
                             THEN Append(Settle(@, "returned"),
                                         Call("getBucketsFromMSP", NULL))
                             ELSE Settle(@, "returned")]]
  /\ UNCHANGED <<buckets, selectedBucket, selectedBucketId, isLoadingBucketInfo,
                 isDeleting, deletes, loads, views>>
  /\ UNCHANGED appVars

\* the refresh of a creation returned: the list replaced, the reset timer set
CreateLoadReturns(r, data) ==
  /\ creates[r].pc = "loadBuckets"
  /\ LoadBucketsReturn(data)
  /\ creates' = [creates EXCEPT ![r] =
       [@ EXCEPT !.pc = "timer", !.calls = Settle(@, "returned")]]
  /\ UNCHANGED <<selectedBucket, selectedBucketId, isLoadingBucketInfo, isDeleting,
                 error, bucketName, createProgress, deletes, loads, views>>
  /\ UNCHANGED appVars

\* the refresh of a creation threw: loadBuckets catches it, the timer is set
CreateLoadThrows(r, err) ==
  /\ creates[r].pc = "loadBuckets"
  /\ LoadBucketsThrow(err)
  /\ creates' = [creates EXCEPT ![r] =
       [@ EXCEPT !.pc = "timer", !.calls = Settle(@, "threw")]]
  /\ UNCHANGED <<buckets, selectedBucket, selectedBucketId, isLoadingBucketInfo,
                 isDeleting, bucketName, createProgress, deletes, loads, views>>
  /\ UNCHANGED appVars

\* the callback of setTimeout(..., 2000)
ResetTimerFires(r) ==
  /\ creates[r].pc = "timer"
  /\ createProgress' = Progress("idle", "")
  /\ creates' = [creates EXCEPT ![r] =
       [NoCreate EXCEPT !.pc = "finished",
                        !.emitted = creates[r].emitted,
                        !.calls = Forget(creates[r].calls)]]
  /\ UNCHANGED <<buckets, selectedBucket, selectedBucketId, isLoadingBuckets,
                 isLoadingBucketInfo, isDeleting, error, bucketName,
                 deletes, loads, views>>
  /\ UNCHANGED appVars

\* a catch block that reports the failure in the stepper only, the page error
\* left as it was
CreateCatchNoSetError(r, err) ==
  /\ creates[r].pc \in {"createBucket", "verifyBucketCreation",
                        "waitForBackendBucketReady"}
  /\ createProgress' = Progress("error", ErrMessage(err, "Failed to create bucket"))
  /\ creates' = [creates EXCEPT ![r] =
       [NoCreate EXCEPT !.pc = "failed",
                        !.thrown = err,
                        !.emitted = Append(creates[r].emitted, "error"),
                        !.calls = Forget(Settle(creates[r].calls, "threw"))]]
  /\ UNCHANGED <<buckets, selectedBucket, selectedBucketId, isLoadingBuckets,
                 isLoadingBucketInfo, isDeleting, error, bucketName, deletes,
                 loads, views>>
  /\ UNCHANGED appVars

\* the catch block: createBucket, verifyBucketCreation or
\* waitForBackendBucketReady threw err
CreateCatch(r, err) ==
  /\ creates[r].pc \in {"createBucket", "verifyBucketCreation",
                        "waitForBackendBucketReady"}
  /\ createProgress' = Progress("error", ErrMessage(err, "Failed to create bucket"))
  /\ error' = ErrMessage(err, "Failed to create bucket")
  /\ creates' = [creates EXCEPT ![r] =
       [NoCreate EXCEPT !.pc = "failed",
                        !.thrown = err,
                        !.emitted = Append(creates[r].emitted, "error"),
                        !.calls = Forget(Settle(creates[r].calls, "threw"))]]
  /\ UNCHANGED <<buckets, selectedBucket, selectedBucketId, isLoadingBuckets,
                 isLoadingBucketInfo, isDeleting, bucketName, deletes, loads, views>>
  /\ UNCHANGED appVars

\* getProgressSteps: the status of each of the four steps of the stepper
StepIndex(step) ==
  CASE step = "creating" -> 0
    [] step = "verifying" -> 1
    [] step = "waiting" -> 2
    [] step = "done" -> 3
    [] OTHER -> -1
getProgressSteps(progress) ==
  [i \in 1..4 |->
     IF progress.step = "error" /\ i - 1 = StepIndex(progress.step) THEN "error"
     ELSE IF i - 1 < StepIndex(progress.step) THEN "completed"
     ELSE IF i - 1 = StepIndex(progress.step) THEN "active"
     ELSE "pending"]

(* ------------------- Buckets page: handleDeleteBucket ----------------- *)

\* the tail of handleDeleteBucket once loadBuckets is over: the selection of
\* the deleted bucket is dropped (selectedBucketId as the handler's render
\* saw it), and the finally block runs
DeleteTail(d) ==
  /\ IF deletes[d].sel = deletes[d].bucketId
       THEN selectedBucket' = NULL /\ selectedBucketId' = NULL
       ELSE UNCHANGED <<selectedBucket, selectedBucketId>>
  /\ isDeleting' = NULL

\* handleDeleteBucket up to its first await; ok is the answer to confirm()
HandleDeleteBucket(d, id, ok) ==
  /\ IsNext(deletes, d)
  /\ IF ~ok
       THEN /\ deletes' = [deletes EXCEPT ![d].pc = "declined"]
            /\ UNCHANGED <<isDeleting, error>>
       ELSE /\ isDeleting' = id
            /\ error' = NULL
            /\ deletes' = [deletes EXCEPT ![d] =
                 [@ EXCEPT !.pc = "deleteBucket",
                           !.bucketId = id,
                           !.sel = selectedBucketId,
                           !.msp = state.isMspConnected,
                           !.calls = <<Call("deleteBucket", id)>>]]
  /\ UNCHANGED <<buckets, selectedBucket, selectedBucketId, isLoadingBuckets,
                 isLoadingBucketInfo, bucketName, createProgress, creates,
                 loads, views>>
  /\ UNCHANGED appVars

\* the rows of the table, with their buttons, show when the list is loaded
RowShown(id) == state.isAuthenticated /\ ~isLoadingBuckets /\ id \in buckets

\* the Delete button of a row
ClickDelete(d, id, ok) ==
  /\ RowShown(id)
  /\ ~ButtonDisabled(FALSE, isDeleting = id)
  /\ HandleDeleteBucket(d, id, ok)

\* deleteBucket returned: loadBuckets, and the tail at once when it returns
\* at its guard
DeleteReturns(d) ==
  /\ deletes[d].pc = "deleteBucket"
  /\ LoadBucketsCall(deletes[d].msp)
  /\ IF deletes[d].msp
       THEN /\ deletes' = [deletes EXCEPT ![d] =
                 [@ EXCEPT !.pc = "loadBuckets",
                           !.calls = Append(Settle(@, "returned"),
                                            Call("getBucketsFromMSP", NULL))]]
            /\ UNCHANGED <<selectedBucket, selectedBucketId, isDeleting>>
       ELSE /\ deletes' = [deletes EXCEPT ![d] =
                 [NoDelete EXCEPT !.pc = "finished",
                                  !.calls = Forget(Settle(deletes[d].calls, "returned"))]]
            /\ DeleteTail(d)
  /\ UNCHANGED <<buckets, isLoadingBucketInfo, bucketName, createProgress,
                 creates, loads, views>>
  /\ UNCHANGED appVars

DeleteLoadReturns(d, data) ==
  /\ deletes[d].pc = "loadBuckets"
  /\ LoadBucketsReturn(data)
  /\ DeleteTail(d)
  /\ deletes' = [deletes EXCEPT ![d] =
       [NoDelete EXCEPT !.pc = "finished",
                        !.calls = Forget(Settle(deletes[d].calls, "returned"))]]
  /\ UNCHANGED <<isLoadingBucketInfo, error, bucketName, createProgress,
                 creates, loads, views>>
  /\ UNCHANGED appVars

DeleteLoadThrows(d, err) ==
  /\ deletes[d].pc = "loadBuckets"
  /\ LoadBucketsThrow(err)
  /\ DeleteTail(d)
  /\ deletes' = [deletes EXCEPT ![d] =
       [NoDelete EXCEPT !.pc = "finished",
                        !.calls = Forget(Settle(deletes[d].calls, "threw"))]]
  /\ UNCHANGED <<buckets, isLoadingBucketInfo, bucketName, createProgress,
                 creates, loads, views>>
  /\ UNCHANGED appVars

\* deleteBucket threw: the catch and the finally block
DeleteCatch(d, err) ==
  /\ deletes[d].pc = "deleteBucket"
  /\ error' = ErrMessage(err, "Failed to delete bucket")
  /\ isDeleting' = NULL
  /\ deletes' = [deletes EXCEPT ![d] =
       [NoDelete EXCEPT !.pc = "failed",
                        !.calls = Forget(Settle(deletes[d].calls, "threw"))]]
  /\ UNCHANGED <<buckets, selectedBucket, selectedBucketId, isLoadingBuckets,
                 isLoadingBucketInfo, bucketName, createProgress, creates,
                 loads, views>>
  /\ UNCHANGED appVars

(* -------------------- Buckets page: handleViewBucket ------------------ *)

\* handleViewBucket up to its await
HandleViewBucket(v, id) ==
  /\ IsNext(views, v)
  /\ selectedBucketId' = id
  /\ isLoadingBucketInfo' = TRUE
  /\ error' = NULL
  /\ views' = [views EXCEPT ![v] = [pc |-> "verifyBucketCreation", bucketId |-> id]]
  /\ UNCHANGED <<buckets, selectedBucket, isLoadingBuckets, isDeleting, bucketName,
                 createProgress, creates, deletes, loads>>
  /\ UNCHANGED appVars

\* the View button of a row
ClickView(v, id) ==
  /\ RowShown(id)
  /\ ~ButtonDisabled(FALSE, isLoadingBucketInfo /\ selectedBucketId = id)
  /\ HandleViewBucket(v, id)

\* the record verifyBucketCreation(bucketId) resolves with: the chain's
\* record of that bucket, a different value for each bucket
BucketInfo(bucketId) == "info of " \o bucketId

\* verifyBucketCreation(bucketId) returned
ViewReturns(v) ==
  /\ views[v].pc = "verifyBucketCreation"
  /\ selectedBucket' = BucketInfo(views[v].bucketId)
  /\ isLoadingBucketInfo' = FALSE
  /\ views' = [views EXCEPT ![v] = [NoView EXCEPT !.pc = "returned"]]
  /\ UNCHANGED <<buckets, selectedBucketId, isLoadingBuckets, isDeleting, error,
                 bucketName, createProgress, creates, deletes, loads>>
  /\ UNCHANGED appVars

ViewThrows(v, err) ==
  /\ views[v].pc = "verifyBucketCreation"
  /\ error' = ErrMessage(err, "Failed to load bucket info")
  /\ isLoadingBucketInfo' = FALSE
  /\ views' = [views EXCEPT ![v] = [NoView EXCEPT !.pc = "failed"]]
  /\ UNCHANGED <<buckets, selectedBucket, selectedBucketId, isLoadingBuckets,
                 isDeleting, bucketName, createProgress, creates, deletes, loads>>
  /\ UNCHANGED appVars

(* ------------------------ AppProvider: disconnect --------------------- *)

\* disconnect: synchronous, the whole AppState reset
Disconnect ==
  /\ state # SignedOut
  /\ state' = SignedOut
  /\ UNCHANGED <<isLoading, appError, wasmInitialized, connects, restore,
                 mspConn, auth, wasmCalls>>
  /\ UNCHANGED pageVars

(* ---------------- AppProvider: the one-time WASM bootstrap ------------- *)

\* if (!wasmInitialized) await initWasm(): the position a caller moves to,
\* and the initWasm calls made so far
AfterWasmCheck(next) == IF wasmInitialized THEN next ELSE "initWasm"
WasmCheck ==
  wasmCalls' = IF wasmInitialized THEN wasmCalls
               ELSE [wasmCalls EXCEPT !.pending = @ + 1]

\* initWasm returned to one caller: wasmInitialized = true
WasmReturned ==
  /\ wasmInitialized' = TRUE
  /\ wasmCalls' = [wasmCalls EXCEPT !.pending = @ - 1, !.returned = @ + 1]

\* what an operation leaves in wasmCalls when it throws at position pc
WasmThrown(pc) ==
  wasmCalls' = IF pc = "initWasm"
               THEN [wasmCalls EXCEPT !.pending = @ - 1, !.threw = @ + 1]
               ELSE wasmCalls

(* ----------------------- AppProvider: connectWallet ------------------- *)

ConnectWallet(c) ==
  /\ connects[c] = "none" /\ \A q \in 1..(c - 1) : connects[q] # "none"
  /\ isLoading' = TRUE
  /\ appError' = NULL
  /\ WasmCheck
  /\ connects' = [connects EXCEPT ![c] = AfterWasmCheck("connectWalletService")]
  /\ UNCHANGED <<state, wasmInitialized, restore, mspConn, auth>>
  /\ UNCHANGED pageVars

ConnectWalletInitWasmReturns(c) ==
  /\ connects[c] = "initWasm"
  /\ WasmReturned
  /\ connects' = [connects EXCEPT ![c] = "connectWalletService"]
  /\ UNCHANGED <<state, isLoading, appError, restore, mspConn, auth>>
  /\ UNCHANGED pageVars

ConnectWalletServiceReturns(c) ==
  /\ connects[c] = "connectWalletService"
  /\ connects' = [connects EXCEPT ![c] = "initPolkadotApi"]
  /\ UNCHANGED <<state, isLoading, appError, wasmInitialized, restore, mspConn,
                 auth, wasmCalls>>
  /\ UNCHANGED pageVars

\* initPolkadotApi returned: the wallet fields set on the previous state, finally
ConnectWalletReturns(c) ==
  /\ connects[c] = "initPolkadotApi"
  /\ state' = [state EXCEPT !.isWalletConnected = TRUE, !.address = "0xA"]
  /\ isLoading' = FALSE
  /\ connects' = [connects EXCEPT ![c] = "returned"]
  /\ UNCHANGED <<appError, wasmInitialized, restore, mspConn, auth, wasmCalls>>
  /\ UNCHANGED pageVars

\* any of the three awaits threw: catch (setError, rethrow) and finally
ConnectWalletCatch(c, err) ==
  /\ connects[c] \in {"initWasm", "connectWalletService", "initPolkadotApi"}
  /\ appError' = ErrMessage(err, "Failed to connect wallet")
  /\ isLoading' = FALSE
  /\ WasmThrown(connects[c])
  /\ connects' = [connects EXCEPT ![c] = "threw"]
  /\ UNCHANGED <<state, wasmInitialized, restore, mspConn, auth>>
  /\ UNCHANGED pageVars

(* ----------------------- AppProvider: restoreSession ------------------ *)

\* the mount effect runs restoreSession up to its first await;
\* persisted: getConnectedAddress() found an address
RestoreSession(persisted) ==
  /\ isLoading = persisted
  /\ wasmCalls = [pending |-> IF persisted THEN 1 ELSE 0, returned |-> 0, threw |-> 0]
  /\ restore = IF persisted THEN "initWasm" ELSE "returned"

RestoreInitWasmReturns ==
  /\ restore = "initWasm"
  /\ WasmReturned
  /\ restore' = "restoreWalletConnection"
  /\ UNCHANGED <<state, isLoading, appError, connects, mspConn, auth>>
  /\ UNCHANGED pageVars

\* restoreWalletConnection returned an address (restored) or null
RestoreWalletReturns(restored) ==
  /\ restore = "restoreWalletConnection"
  /\ restore' = IF restored THEN "initPolkadotApi" ELSE "returned"
  /\ isLoading' = IF restored THEN isLoading ELSE FALSE
  /\ UNCHANGED <<state, appError, wasmInitialized, connects, mspConn, auth, wasmCalls>>
  /\ UNCHANGED pageVars

\* initPolkadotApi returned; isAuth: checkAuth() finds a valid session
RestoreApiReturns(isAuth) ==
  /\ restore = "initPolkadotApi"
  /\ IF isAuth
       THEN /\ restore' = "connectToMsp"
            /\ UNCHANGED <<state, isLoading>>
       ELSE /\ state' = [state EXCEPT !.isWalletConnected = TRUE, !.address = "0xA"]
            /\ isLoading' = FALSE
            /\ restore' = "returned"
  /\ UNCHANGED <<appError, wasmInitialized, connects, mspConn, auth, wasmCalls>>
  /\ UNCHANGED pageVars

RestoreConnectToMspReturns ==
  /\ restore = "connectToMsp"
  /\ restore' = "getMspInfo"
  /\ UNCHANGED <<state, isLoading, appError, wasmInitialized, connects, mspConn,
                 auth, wasmCalls>>
  /\ UNCHANGED pageVars

\* getMspInfo returned: the whole AppState replaced; profile is what
\* getUserProfile() read before the MSP calls
RestoreReturns(profile) ==
  /\ restore = "getMspInfo"
  /\ state' = [isWalletConnected |-> TRUE, isMspConnected |-> TRUE,
               isAuthenticated |-> TRUE, address |-> "0xA", mspInfo |-> "msp",
               userProfile |-> profile]
  /\ isLoading' = FALSE
  /\ restore' = "returned"
  /\ UNCHANGED <<appError, wasmInitialized, connects, mspConn, auth, wasmCalls>>
  /\ UNCHANGED pageVars

\* any await threw: the empty catch, then finally
RestoreCatch ==
  /\ restore \in {"initWasm", "restoreWalletConnection", "initPolkadotApi",
                  "connectToMsp", "getMspInfo"}
  /\ isLoading' = FALSE
  /\ WasmThrown(restore)
  /\ restore' = "returned"
  /\ UNCHANGED <<state, appError, wasmInitialized, connects, mspConn, auth>>
  /\ UNCHANGED pageVars

(* ---------------- AppProvider: connectMsp, authenticateUser ----------- *)

ConnectMsp ==
  /\ mspConn = "none"
  /\ isLoading' = TRUE
  /\ appError' = NULL
  /\ mspConn' = "connectToMsp"
  /\ UNCHANGED <<state, wasmInitialized, connects, restore, auth, wasmCalls>>
  /\ UNCHANGED pageVars

ConnectToMspReturns ==
  /\ mspConn = "connectToMsp"
  /\ mspConn' = "getMspInfo"
  /\ UNCHANGED <<state, isLoading, appError, wasmInitialized, connects, restore,
                 auth, wasmCalls>>
  /\ UNCHANGED pageVars

ConnectMspReturns ==
  /\ mspConn = "getMspInfo"
  /\ state' = [state EXCEPT !.isMspConnected = TRUE, !.mspInfo = "msp"]
  /\ isLoading' = FALSE
  /\ mspConn' = "returned"
  /\ UNCHANGED <<appError, wasmInitialized, connects, restore, auth, wasmCalls>>
  /\ UNCHANGED pageVars

ConnectMspCatch(err) ==
  /\ mspConn \in {"connectToMsp", "getMspInfo"}
  /\ appError' = ErrMessage(err, "Failed to connect to MSP")
  /\ isLoading' = FALSE
  /\ mspConn' = "threw"
  /\ UNCHANGED <<state, wasmInitialized, connects, restore, auth, wasmCalls>>
  /\ UNCHANGED pageVars

AuthenticateUser ==
  /\ auth = "none"
  /\ isLoading' = TRUE
  /\ appError' = NULL
  /\ auth' = "authUser"
  /\ UNCHANGED <<state, wasmInitialized, connects, restore, mspConn, wasmCalls>>
  /\ UNCHANGED pageVars

AuthenticateUserReturns ==
  /\ auth = "authUser"
  /\ state' = [state EXCEPT !.isAuthenticated = TRUE, !.userProfile = "profile"]
  /\ isLoading' = FALSE
  /\ auth' = "returned"
  /\ UNCHANGED <<appError, wasmInitialized, connects, restore, mspConn, wasmCalls>>
  /\ UNCHANGED pageVars

AuthenticateUserCatch(err) ==
  /\ auth = "authUser"
  /\ appError' = ErrMessage(err, "Failed to authenticate")
  /\ isLoading' = FALSE
  /\ auth' = "threw"
  /\ UNCHANGED <<state, wasmInitialized, connects, restore, mspConn, wasmCalls>>
  /\ UNCHANGED pageVars

(* ---------------------- AppProvider on its own ------------------------ *)

\* a page that never mounts: the Buckets cells keep their initial values
PageIdle ==
  /\ PageInit(0)
  /\ MountEffect(FALSE)

InitApp ==
  /\ state = SignedOut
  /\ wasmInitialized = FALSE
  /\ \E persisted \in BOOLEAN : RestoreSession(persisted)
  /\ AppIdle
  /\ PageIdle

NextApp ==
  \/ RestoreInitWasmReturns
  \/ \E restored \in BOOLEAN : RestoreWalletReturns(restored)
  \/ \E isAuth \in BOOLEAN : RestoreApiReturns(isAuth)
  \/ RestoreConnectToMspReturns
  \/ \E profile \in {NULL, "profile"} : RestoreReturns(profile)
  \/ RestoreCatch
  \/ \E c \in 1..MaxConnects : ConnectWallet(c)
  \/ \E c \in 1..MaxConnects : ConnectWalletInitWasmReturns(c)
  \/ \E c \in 1..MaxConnects : ConnectWalletServiceReturns(c)
  \/ \E c \in 1..MaxConnects : ConnectWalletReturns(c)
  \/ \E c \in 1..MaxConnects, err \in ErrValues : ConnectWalletCatch(c, err)
  \/ ConnectMsp
  \/ ConnectToMspReturns
  \/ ConnectMspReturns
  \/ \E err \in ErrValues : ConnectMspCatch(err)
  \/ AuthenticateUser
  \/ AuthenticateUserReturns
  \/ \E err \in ErrValues : AuthenticateUserCatch(err)
  \/ Disconnect

SpecApp == InitApp /\ [][NextApp]_vars

(* ------------------ the Buckets page, driven by its UI ---------------- *)

\* the provider as the page finds it: bootstrapped, nothing in flight
AppSettled ==
  /\ wasmInitialized = TRUE
  /\ isLoading = FALSE
  /\ restore = "returned"
  /\ wasmCalls = [pending |-> 0, returned |-> 1, threw |-> 0]
  /\ AppIdle

\* the page mounts under any of its contexts, with room for n creations
PageMounts(n) ==
  /\ state \in PageContexts
  /\ AppSettled
  /\ PageInit(n)
  /\ MountEffect(state.isMspConnected)

LoadCompletions ==
  \/ \E l \in 0..MaxLoads, data \in Listings : LoadReturns(l, data)
  \/ \E l \in 0..MaxLoads, err \in ErrValues : LoadThrows(l, err)

CreateCompletions ==
  \/ \E r \in Creates, id \in BucketIds : CreateBucketReturns(r, id)
  \/ \E r \in Creates : VerifyReturns(r)
  \/ \E r \in Creates : WaitReturns(r)
  \/ \E r \in Creates, data \in Listings : CreateLoadReturns(r, data)
  \/ \E r \in Creates, err \in ErrValues : CreateLoadThrows(r, err)
  \/ \E r \in Creates : ResetTimerFires(r)
  \/ \E r \in Creates, err \in ErrValues : CreateCatch(r, err)

RowCompletions ==
  \/ \E d \in DeleteRuns : DeleteReturns(d)
  \/ \E d \in DeleteRuns, data \in Listings : DeleteLoadReturns(d, data)
  \/ \E d \in DeleteRuns, err \in ErrValues : DeleteLoadThrows(d, err)
  \/ \E d \in DeleteRuns, err \in ErrValues : DeleteCatch(d, err)
  \/ \E v \in Views : ViewReturns(v)
  \/ \E v \in Views, err \in ErrValues : ViewThrows(v, err)

\* the Create Bucket card under a context that stays as the page found it:
\* the form, the creation workflow, its reset timer, the listing of the mount
Init == PageMounts(MaxCreateRuns)

Next ==
  \/ \E v \in Names : SetBucketName(v)
  \/ \E r \in Creates : SubmitForm(r)
  \/ LoadCompletions
  \/ CreateCompletions

Spec == Init /\ [][Next]_vars

\* the same card over one creation more
InitBusy == PageMounts(MaxCreateRuns + 1)

SpecBusy == InitBusy /\ [][Next]_vars

\* the same card with handleCreateBucket called whatever the form shows
InitHandlers == PageMounts(MaxHandlerCalls)

NextHandlers ==
  \/ \E v \in Names : SetBucketName(v)
  \/ \E r \in Creates : HandleCreateBucket(r)
  \/ LoadCompletions
  \/ CreateCompletions

SpecHandlers == InitHandlers /\ [][NextHandlers]_vars

\* the Your Buckets card: Refresh, and the View and Delete buttons of the rows
InitRows == PageMounts(0)

NextRows ==
  \/ \E l \in Loads : Refresh(l)
  \/ \E d \in DeleteRuns, id \in BucketIds, ok \in BOOLEAN : ClickDelete(d, id, ok)
  \/ \E v \in Views, id \in BucketIds : ClickView(v, id)
  \/ Disconnect
  \/ LoadCompletions
  \/ RowCompletions

SpecRows == InitRows /\ [][NextRows]_vars

(* ============================== claims ================================ *)

Phases == <<"creating", "verifying", "waiting", "done">>
Collaborators == <<"createBucket", "verifyBucketCreation",
                   "waitForBackendBucketReady", "getBucketsFromMSP">>

\* positions of handleCreateBucket: inside the three phases, past 'done',
\* and while the handler still remembers its arguments
Working == {"createBucket", "verifyBucketCreation", "waitForBackendBucketReady"}
Succeeded == {"loadBuckets", "timer", "finished"}
Remembering == Working \cup {"loadBuckets", "timer"}

IsPrefix(s, t) == Len(s) <= Len(t) /\ \A i \in 1..Len(s) : s[i] = t[i]
Last(s) == s[Len(s)]

\* C1: a creation that succeeds has set the progress steps creating,
\* verifying, waiting, done, in that order and once each; a creation still
\* inside its phases has set a prefix of them, one step per phase entered.
C1_StepsInOrder ==
  \A r \in Creates :
    /\ creates[r].pc \in Succeeded => creates[r].emitted = Phases
    /\ creates[r].pc \in Working =>
         /\ IsPrefix(creates[r].emitted, Phases)
         /\ Len(creates[r].emitted) = Len(creates[r].calls)

\* a creation has succeeded and its reset timer has fired
C1_Witness == \E r \in Creates : creates[r].pc = "finished"

\* C2: the collaborators of a creation are called in the order createBucket,
\* verifyBucketCreation, waitForBackendBucketReady, each only after the call
\* before it has returned, the two later ones with the id createBucket
\* returned; a creation whose createBucket threw made no other call and set
\* no step after 'creating' but 'error'.
C2_CallsInOrder ==
  \A r \in Creates :
    LET c == creates[r].calls IN
    /\ \A i \in 1..Len(c) : c[i].fn = Collaborators[i]
    /\ \A i \in 2..Len(c) : c[i - 1].result = "returned"
    /\ creates[r].pc \in Remembering =>
         \A i \in 2..Len(c) :
           i <= 3 => c[i].arg = creates[r].bucketId /\ c[i].arg \in BucketIds
    /\ (creates[r].pc = "failed" /\ c[1].result = "threw") =>
         Len(c) = 1 /\ creates[r].emitted = <<"creating", "error">>

\* createBucket threw in some creation
C2_Witness ==
  \E r \in Creates : creates[r].pc = "failed" /\ creates[r].calls[1].result = "threw"

\* C3: when the progress shows 'done', a creation has set it, and every
\* creation that set 'done' did so after its createBucket,
\* verifyBucketCreation and waitForBackendBucketReady calls returned, the
\* backend wait made for the id createBucket returned to that creation.
C3_DoneOnlyWhenReady ==
  /\ createProgress.step = "done" =>
       \E r \in Creates : creates[r].pc \in Succeeded
  /\ \A r \in Creates :
       (\E i \in 1..Len(creates[r].emitted) : creates[r].emitted[i] = "done") =>
         LET c == creates[r].calls IN
         /\ Len(c) >= 3
         /\ \A i \in 1..3 : c[i].fn = Collaborators[i] /\ c[i].result = "returned"
         /\ creates[r].pc \in Remembering =>
              /\ creates[r].bucketId \in BucketIds
              /\ c[2].arg = creates[r].bucketId
              /\ c[3].arg = creates[r].bucketId

\* the page shows 'done'
C3_Witness == createProgress.step = "done"

\* C4 (as claimed): no two creations of the same name are inside their phases
\* at once, and no two deletions of the same bucket are in flight at once.
C4_NoConflictingRuns ==
  /\ \A r1, r2 \in Creates :
       (r1 # r2 /\ creates[r1].pc \in Working /\ creates[r2].pc \in Working)
         => creates[r1].name # creates[r2].name
  /\ \A d1, d2 \in DeleteRuns :
       (d1 # d2 /\ deletes[d1].pc \in {"deleteBucket", "loadBuckets"}
                /\ deletes[d2].pc \in {"deleteBucket", "loadBuckets"})
         => deletes[d1].bucketId # deletes[d2].bucketId

\* C5 (as claimed): while the progress shows a creation in flight, no step
\* moves it to an earlier phase or back to idle.
Rank(step) ==
  CASE step = "idle" -> 0
    [] step = "creating" -> 1
    [] step = "verifying" -> 2
    [] step = "waiting" -> 3
    [] OTHER -> 4
C5_ProgressMonotonic ==
  [][FormBusy => Rank(createProgress'.step) >= Rank(createProgress.step)]_vars

\* C6: the step in which a creation fails leaves the progress at 'error' with
\* the message of what was thrown, and the page error at the same message;
\* every creation that has ended set a terminal step last.
C6_FailureReported ==
  [][\A r \in Creates :
       /\ (creates[r].pc \in Working /\ creates'[r].pc \notin Working) =>
            creates'[r].pc \in {"failed", "loadBuckets", "timer"}
       /\ (creates[r].pc \in Working /\ creates'[r].pc = "failed") =>
            LET m == ErrMessage(creates'[r].thrown, "Failed to create bucket") IN
            /\ creates'[r].thrown \in ErrValues
            /\ createProgress' = Progress("error", m)
            /\ error' = m
            /\ Last(creates'[r].emitted) = "error"
       /\ (creates[r].pc \in Working /\ creates'[r].pc \in {"loadBuckets", "timer"}) =>
            createProgress'.step = "done"]_vars

\* a creation has failed and the page shows its message in both places
C6_Witness ==
  \E r \in Creates :
    /\ creates[r].pc = "failed"
    /\ createProgress = Progress("error", "rejected")
    /\ error = "rejected"

\* C7 (as claimed): when the progress shows the failure of a creation, the
\* stepper marks the step of the phase that failed as failed, the steps
\* before it as completed, and no other step as failed.
C7_FailedStepMarked ==
  \A r \in Creates :
    (creates[r].pc = "failed" /\ createProgress.step = "error"
       /\ createProgress.message
            = ErrMessage(creates[r].thrown, "Failed to create bucket")) =>
      \E p \in 1..3 :
        /\ getProgressSteps(createProgress)[p] = "error"
        /\ \A i \in 1..4 :
             /\ i < p => getProgressSteps(createProgress)[i] = "completed"
             /\ i # p => getProgressSteps(createProgress)[i] # "error"

\* C8 (as claimed): a creation that set 'done' and a deletion whose
\* deleteBucket returned have queried getBucketsFromMSP after their other
\* calls, a failed one has not, and the list changes only in a step in which
\* a getBucketsFromMSP call returns.
Queried(calls) == \E i \in 1..Len(calls) : calls[i].fn = "getBucketsFromMSP"
Returning(calls, calls2) ==
  /\ calls # <<>> /\ Len(calls2) = Len(calls)
  /\ Last(calls).fn = "getBucketsFromMSP"
  /\ Last(calls).result = "pending" /\ Last(calls2).result = "returned"
C8_ListingRequeried ==
  [][/\ \A r \in Creates :
          /\ creates'[r].pc \in Succeeded =>
               Len(creates'[r].calls) = 4 /\ Last(creates'[r].calls).fn = "getBucketsFromMSP"
          /\ creates'[r].pc = "failed" => ~Queried(creates'[r].calls)
     /\ \A d \in DeleteRuns :
          /\ deletes'[d].pc \in {"loadBuckets", "finished"} =>
               Len(deletes'[d].calls) = 2 /\ Last(deletes'[d].calls).fn = "getBucketsFromMSP"
          /\ deletes'[d].pc = "failed" => ~Queried(deletes'[d].calls)
     /\ buckets' # buckets =>
          \/ \E r \in Creates : Returning(creates[r].calls, creates'[r].calls)
          \/ \E d \in DeleteRuns : Returning(deletes[d].calls, deletes'[d].calls)
          \/ \E l \in 0..MaxLoads :
               loads[l].pc = "getBucketsFromMSP" /\ loads'[l].pc = "returned"]_vars

\* C9 (as claimed): initWasm is invoked at most once, failed attempts aside.
C9_InitWasmOnce == wasmCalls.pending + wasmCalls.returned <= 1

\* C10: a call of handleCreateBucket while the name is empty or only
\* whitespace returns at once: it calls no collaborator and leaves the
\* progress, the page error, the list and every other cell as they were.
C10_BlankNameRejected ==
  [][\A r \in Creates :
       (creates[r].pc = "none" /\ creates'[r].pc # "none" /\ Trim(bucketName) = <<>>) =>
         /\ creates'[r] = [NoCreate EXCEPT !.pc = "rejected"]
         /\ UNCHANGED <<buckets, selectedBucket, selectedBucketId, isLoadingBuckets,
                        isLoadingBucketInfo, isDeleting, error, bucketName,
                        createProgress, deletes, loads, views>>]_vars

\* handleCreateBucket was called with a name of whitespace only
C10_Witness ==
  \E r \in Creates : creates[r].pc = "rejected" /\ bucketName = <<" ">>

\* C11: whenever bucket details are shown, they were fetched for the bucket
\* id shown with them: selectedBucket, when set, is the record that
\* verifyBucketCreation returned for selectedBucketId
C11_DetailsMatchId ==
  selectedBucket # NULL =>
    /\ selectedBucketId \in BucketIds
    /\ selectedBucket = BucketInfo(selectedBucketId)

\* C12: in every state of the session, isAuthenticated implies
\* isWalletConnected and isMspConnected, whatever the order in which
\* connectWallet, connectMsp, authenticateUser, restoreSession and disconnect
\* run and resolve
C12_AuthenticatedImpliesConnected ==
  state.isAuthenticated => state.isWalletConnected /\ state.isMspConnected

\* an operation of AppProvider is suspended at one of its awaits
ConnectWalletInFlight ==
  \E c \in 1..MaxConnects :
    connects[c] \in {"initWasm", "connectWalletService", "initPolkadotApi"}
ConnectMspInFlight == mspConn \in {"connectToMsp", "getMspInfo"}
AuthenticateUserInFlight == auth = "authUser"
RestoreSessionInFlight ==
  restore \in {"initWasm", "restoreWalletConnection", "initPolkadotApi",
               "connectToMsp", "getMspInfo"}
InFlight ==
  \/ ConnectWalletInFlight
  \/ ConnectMspInFlight
  \/ AuthenticateUserInFlight
  \/ RestoreSessionInFlight

\* C13: isLoading is true exactly while at least one of connectWallet,
\* connectMsp, authenticateUser and restoreSession is in flight: true while
\* any of them is suspended at a network call, false once all are over
C13_LoadingWhileInFlight == isLoading <=> InFlight

====
